---------------------------- MODULE Spec2Model ----------------------------
(***************************************************************************)
(* Model of zkpersona/noir-helpers: the Field class with its bit, byte and *)
(* radix decompositions, the bounded integer types layered on it, the      *)
(* serializer of DataType values, the FixedSizeArray and BoundedVec        *)
(* containers, and the Prover's choice of proving backend.                 *)
(*                                                                         *)
(* Scaling.  TLC's integers are 32-bit, the program's are JavaScript       *)
(* BigInts around a 254-bit prime.  The model keeps the shape of the       *)
(* program's constants and shrinks their size:                             *)
(*   MODULUS       a prime with 2^(MAX_BIT_SIZE-1) < MODULUS <             *)
(*                 2^MAX_BIT_SIZE, as the BN254 prime has with 254 bits;   *)
(*   MAX_FIELD     2^MAX_BIT_SIZE - 1, the validator's upper limit, which  *)
(*                 lies above MODULUS - 1 as in the program;               *)
(*   MAX_EXP       a power of two below MODULUS (2^32 in the program);     *)
(*   modLeBytes    the bytes of the scaled MODULUS, two of them (32 in the *)
(*                 program), so a padded hexadecimal string has 4 digits;  *)
(*   integer types U8 and I8 carry their exact bounds; the wider types     *)
(*                 run the same AbstractInteger code with other constants. *)
(* BigInt arithmetic has no overflow, so only these order relations        *)
(* matter to the code paths modelled here.                                 *)
(***************************************************************************)
EXTENDS Integers, Sequences, FiniteSets, TLC

VARIABLES
    input,      \* Field/integer specifications: the raw inputs x, y (and the type);
                \* BoundedVec specification: the arguments of the last call
    op,         \* the last operation applied
    result,     \* what the last operation returned or the error it threw
    maxSize,    \* BoundedVec.maxSize
    length,     \* BoundedVec.length, FixedSizeArray.length
    items,      \* BoundedVec.items, FixedSizeArray.items (index i of the code
                \* is index i+1 here)
    heap        \* what the calls reach by reference or the caller keeps: the
                \* arrays the caller shares with a FixedSizeArray, the
                \* caller's default and expected sequence for a BoundedVec,
                \* the objects held in slots, the Prover and its backends

vars == <<input, op, result, maxSize, length, items, heap>>

----------------------------------------------------------------------------
(* Program constants (scaled, see above).                                  *)

MAX_BIT_SIZE == 9

MODULUS == 383

MAX_FIELD == 2^MAX_BIT_SIZE - 1

MAX_EXP == 2^5

----------------------------------------------------------------------------
(* Results of a call: a returned value or a thrown error.  An error message *)
(* is a sequence of strings (its fixed text, and the characters of the     *)
(* numbers formatted into it).                                             *)

Ok(v) == [ok |-> TRUE, value |-> v, error |-> <<>>]

Err(msg) == [ok |-> FALSE, value |-> 0, error |-> msg]

----------------------------------------------------------------------------
(* JavaScript BigInt arithmetic.                                           *)

Abs(n) == IF n < 0 THEN -n ELSE n

\* BigInt `a % m`: the remainder has the sign of the dividend.
JsRem(a, m) == IF a >= 0 THEN a % Abs(m) ELSE -((-a) % Abs(m))

\* BigInt `a / b`: the quotient is truncated towards zero.
JsDiv(a, b) ==
    IF (a >= 0) = (b > 0) THEN Abs(a) \div Abs(b) ELSE -(Abs(a) \div Abs(b))

RECURSIVE AndNat(_, _)
AndNat(x, y) ==
    IF x = 0 \/ y = 0 THEN 0
    ELSE (x % 2) * (y % 2) + 2 * AndNat(x \div 2, y \div 2)

RECURSIVE Pow2Above(_, _)
Pow2Above(y, p) == IF p > y THEN p ELSE Pow2Above(y, 2 * p)

\* BigInt `x & y` for y >= 0: x is read in two's complement, so a negative x
\* contributes the low bits of x mod 2^k for any 2^k > y.
JsAnd(x, y) == AndNat(x % Pow2Above(y, 1), y)

----------------------------------------------------------------------------
(* Strings are sequences of one-character strings.                         *)

DecChars == <<"0", "1", "2", "3", "4", "5", "6", "7", "8", "9">>

HexChars == DecChars \o <<"a", "b", "c", "d", "e", "f">>

UpperHex == <<"A", "B", "C", "D", "E", "F">>

IsDecChar(c) == \E i \in 1..10 : DecChars[i] = c

IsHexChar(c) == (\E i \in 1..16 : HexChars[i] = c) \/ (\E i \in 1..6 : UpperHex[i] = c)

CharValue(c) ==
    IF \E i \in 1..16 : HexChars[i] = c
    THEN (CHOOSE i \in 1..16 : HexChars[i] = c) - 1
    ELSE (CHOOSE i \in 1..6 : UpperHex[i] = c) + 9

\* /^\d+$/
MatchesDecimal(s) == Len(s) >= 1 /\ \A i \in 1..Len(s) : IsDecChar(s[i])

\* /^-?\d+$/
MatchesSignedDecimal(s) ==
    IF Len(s) >= 1 /\ s[1] = "-" THEN MatchesDecimal(Tail(s)) ELSE MatchesDecimal(s)

\* /^0x[0-9a-fA-F]+$/
MatchesHex(s) ==
    /\ Len(s) >= 3
    /\ s[1] = "0"
    /\ s[2] = "x"
    /\ \A i \in 3..Len(s) : IsHexChar(s[i])

RECURSIVE ParseDigits(_, _, _)
ParseDigits(s, base, acc) ==
    IF s = <<>> THEN acc ELSE ParseDigits(Tail(s), base, acc * base + CharValue(Head(s)))

\* BigInt(str) on a string one of the patterns above has accepted.
BigIntOfString(s) ==
    IF MatchesHex(s) THEN ParseDigits(SubSeq(s, 3, Len(s)), 16, 0)
    ELSE IF s[1] = "-" THEN -ParseDigits(Tail(s), 10, 0)
    ELSE ParseDigits(s, 10, 0)

RECURSIVE DigitsOf(_, _)
DigitsOf(n, base) ==
    IF n < base THEN <<HexChars[n + 1]>>
    ELSE Append(DigitsOf(n \div base, base), HexChars[(n % base) + 1])

\* BigInt.prototype.toString(radix)
BigIntToString(n, radix) ==
    IF n < 0 THEN <<"-">> \o DigitsOf(-n, radix) ELSE DigitsOf(n, radix)

----------------------------------------------------------------------------
(* Inputs of the constructors: a native number (possibly with a fractional *)
(* part, int = FALSE), a BigInt, or a string.                              *)

NumberIn(n) == [kind |-> "number", int |-> TRUE, n |-> n, s |-> <<>>]

FractionIn(n) == [kind |-> "number", int |-> FALSE, n |-> n, s |-> <<>>]

BigIntIn(n) == [kind |-> "bigint", int |-> TRUE, n |-> n, s |-> <<>>]

StringIn(s) == [kind |-> "string", int |-> TRUE, n |-> 0, s |-> s]

----------------------------------------------------------------------------
(* zod validators.                                                         *)

\* fieldInputSchema (a union tried in order), the transform to BigInt, and the
\* upper-limit refinement.  There is no lower limit.
FieldValidator(in) ==
    IF in.kind = "number" /\ ~in.int THEN Err(<<"Field input must be an integer">>)
    ELSE IF in.kind = "number" /\ in.n < 0 THEN Err(<<"Field input must be non-negative">>)
    ELSE IF in.kind = "string" /\ ~(MatchesHex(in.s) \/ MatchesDecimal(in.s))
    THEN Err(<<"String must be a decimal or hexadecimal number">>)
    ELSE LET n == IF in.kind = "string" THEN BigIntOfString(in.s) ELSE in.n
         IN  IF n <= MAX_FIELD THEN Ok(n)
             ELSE Err(<<"Field value must be between 0 and 2^254 - 1">>)

\* The message of IntegerValidator's refinement, with the bounds in decimal.
RangeMessage(min, max) ==
    <<"Value must be in range [">> \o BigIntToString(min, 10) \o <<", ">>
        \o BigIntToString(max, 10) \o <<"]">>

IntegerValidator(min, max, in) ==
    IF in.kind = "number" /\ ~in.int THEN Err(<<"Input must be a integer">>)
    ELSE IF in.kind = "string" /\ ~MatchesSignedDecimal(in.s) THEN Err(<<"Invalid">>)
    ELSE LET n == IF in.kind = "string" THEN BigIntOfString(in.s) ELSE in.n
         IN  IF n >= min /\ n <= max THEN Ok(n) ELSE Err(RangeMessage(min, max))

----------------------------------------------------------------------------
(* Field.                                                                  *)

\* The constructor of the first Field class (field.ts:40): no reduction.
Field_constructor_unreduced(in) == FieldValidator(in)

\* new Field(input): value = parsed % MODULUS, BigInt's sign-keeping remainder.
Field_constructor(in) ==
    LET parsed == FieldValidator(in)
    IN  IF parsed.ok THEN Ok(JsRem(parsed.value, MODULUS)) ELSE parsed

\* toString(): decimal.
Field_toString(value) == BigIntToString(value, 10)

\* The variant that leaves out the prefix.
toHex_noPrefix(value) == BigIntToString(value, 16)

\* toHex(): "0x" and the hexadecimal digits, no padding.
toHex(value) == <<"0", "x">> \o BigIntToString(value, 16)

mul(a, b) == Field_constructor(BigIntIn(JsRem(a * b, MODULUS)))

RECURSIVE modInvLoop(_, _, _, _)
modInvLoop(t, newT, r, newR) ==
    IF newR = 0 THEN [t |-> t, r |-> r]
    ELSE LET quotient == JsDiv(r, newR)
         IN  modInvLoop(newT, t - quotient * newT, newR, r - quotient * newR)

\* The extended Euclidean algorithm.
modInv(a, mod) ==
    LET end == modInvLoop(0, 1, mod, a)
    IN  IF end.r > 1 THEN Err(<<"Input is not invertible">>)
        ELSE Ok(IF end.t < 0 THEN end.t + mod ELSE end.t)

div(a, b) ==
    IF b = 0 THEN Err(<<"Division by zero">>)
    ELSE LET inv == modInv(b, MODULUS)
         IN  IF ~inv.ok THEN inv
             ELSE Field_constructor(BigIntIn(JsRem(a * inv.value, MODULUS)))

\* BigInt(other) for a scalar: a number that is not an integer and a
\* string that is not a numeral throw; the empty string is 0n; a decimal
\* numeral may have a sign.  (Strings with white space, a '+', or the
\* prefixes 0X, 0b, 0o are not among the inputs.)
BigInt(in) ==
    IF in.kind = "number" /\ ~in.int
    THEN Err(<<"The number cannot be converted to a BigInt because it is not an integer">>)
    ELSE IF in.kind # "string" THEN Ok(in.n)
    ELSE IF in.s = <<>> THEN Ok(0)
    ELSE IF MatchesHex(in.s) \/ MatchesSignedDecimal(in.s) THEN Ok(BigIntOfString(in.s))
    ELSE Err(<<"Cannot convert to a BigInt">>)

\* equals(other), other a Field.
equalsField(value, other) == Ok(value = other)

\* equals(other), other a scalar.
equals(value, in) ==
    LET rhs == BigInt(in)
    IN  IF rhs.ok THEN Ok(value = rhs.value) ELSE rhs

add(a, b) ==
    LET sum == a + b
        reduced == IF sum >= MODULUS THEN sum - MODULUS ELSE sum
    IN  Field_constructor(BigIntIn(reduced))

sub(a, b) == Field_constructor(BigIntIn(JsRem(a - b + MODULUS, MODULUS)))

mod(a, rhs) ==
    IF rhs = 0 THEN Err(<<"Cannot modulo by zero">>)
    ELSE Field_constructor(BigIntIn(JsRem(JsRem(a, rhs) + rhs, rhs)))

RECURSIVE pow32Loop(_, _, _)
pow32Loop(res, b, e) ==
    IF e > 0
    THEN pow32Loop(IF e % 2 = 1 THEN JsRem(res * b, MODULUS) ELSE res,
                   JsRem(b * b, MODULUS), e \div 2)
    ELSE res

\* Square-and-multiply.
pow32(base, exp) ==
    IF exp < 0 THEN Err(<<"Negative exponents are not allowed">>)
    ELSE IF exp >= MAX_EXP THEN Err(<<"Exponent too large: exceeds 2^32 limit">>)
    ELSE Field_constructor(BigIntIn(pow32Loop(1, JsRem(base, MODULUS), exp)))

----------------------------------------------------------------------------
(* Bit, byte and radix decomposition of a Field value.  Index i of the     *)
(* code's arrays is index i + 1 of the model's sequences.                  *)

\* BigInt `v >> k`: the arithmetic shift, rounding towards minus infinity.
Shr(v, k) == v \div 2^k

OrNat(x, y) == x + y - AndNat(x, y)

\* `x & y` on native numbers of either sign (two's complement).
NumAnd(x, y) ==
    IF y >= 0 THEN JsAnd(x, y)
    ELSE IF x >= 0 THEN JsAnd(y, x)
    ELSE -OrNat(-x - 1, -y - 1) - 1

\* array.reverse()
Reverse(s) == [i \in 1..Len(s) |-> s[Len(s) + 1 - i]]

RECURSIVE log2Loop(_, _)
\* while (v > 1n) { v >>= 1n; result += 1n }
log2Loop(v, res) == IF v > 1 THEN log2Loop(Shr(v, 1), res + 1) ELSE res

log2(value) ==
    IF value <= 0 THEN Err(<<"log2 is undefined for non-positive values">>)
    ELSE Ok(log2Loop(value, 0))

LengthMessage(min, max) ==
    <<"Length must be between ">> \o BigIntToString(min, 10) \o <<" and ">>
        \o BigIntToString(max, 10)

\* The variant whose minimum is one bit short.
minBitLength_short(value) ==
    IF value = 0 THEN Ok(0) ELSE log2(value)

\* this.value === 0n ? 0 : Math.ceil(Number(this.log2(this.value)) + 1)
minBitLength(value) ==
    IF value = 0 THEN Ok(0)
    ELSE LET l == log2(value) IN IF l.ok THEN Ok(l.value + 1) ELSE l

toLeBits(value, n) ==
    LET minLengthRequired == minBitLength(value)
    IN  IF ~minLengthRequired.ok THEN minLengthRequired
        ELSE IF n < minLengthRequired.value \/ n > MAX_BIT_SIZE
        THEN Err(LengthMessage(minLengthRequired.value, MAX_BIT_SIZE))
        ELSE Ok([i \in 1..n |-> JsAnd(Shr(value, i - 1), 1)])

\* The variant that pushes the bits in the order of toLeBits.
toBeBits_unreversed(value, n) == toLeBits(value, n)

toBeBits(value, n) ==
    LET minLengthRequired == minBitLength(value)
    IN  IF ~minLengthRequired.ok THEN minLengthRequired
        ELSE IF n < minLengthRequired.value \/ n > MAX_BIT_SIZE
        THEN Err(LengthMessage(minLengthRequired.value, MAX_BIT_SIZE))
        ELSE Ok([i \in 1..n |-> JsAnd(Shr(value, n - i), 1)])

\* The byte patterns of MODULUS (0x17f).
modBeBytes == <<1, 127>>

modLeBytes == <<127, 1>>

\* Math.ceil(a / b) for a >= 0, b > 0
CeilDiv(a, b) == (a + b - 1) \div b

\* Math.ceil(this.value.toString(2).length / 8)
minByteLength(value) == CeilDiv(Len(BigIntToString(value, 2)), 8)

toLeBytes(value, n) ==
    LET minLengthRequired == minByteLength(value)
    IN  IF n < minLengthRequired \/ n > Len(modLeBytes)
        THEN Err(LengthMessage(minLengthRequired, Len(modLeBytes)))
        ELSE Ok([i \in 1..n |-> JsAnd(Shr(value, 8 * (i - 1)), 255)])

toBeBytes(value, n) ==
    LET minLengthRequired == minByteLength(value)
    IN  IF n < minLengthRequired \/ n > Len(modBeBytes)
        THEN Err(LengthMessage(minLengthRequired, Len(modBeBytes)))
        ELSE Ok([i \in 1..n |-> JsAnd(Shr(value, 8 * (n - i)), 255)])

RECURSIVE fromLeBytesLoop(_, _, _)
\* value |= BigInt(bytes[i]) << (8n * BigInt(i))
fromLeBytesLoop(bytes, i, value) ==
    IF i >= Len(bytes) THEN value
    ELSE fromLeBytesLoop(bytes, i + 1, OrNat(value, bytes[i + 1] * 2^(8 * i)))

fromLeBytes(bytes) == Field_constructor(BigIntIn(fromLeBytesLoop(bytes, 0, 0)))

RECURSIVE fromBeBytesLoop(_, _)
\* value = (value << 8n) | BigInt(byte)
fromBeBytesLoop(bytes, value) ==
    IF bytes = <<>> THEN value
    ELSE fromBeBytesLoop(Tail(bytes), OrNat(value * 2^8, Head(bytes)))

fromBeBytes(bytes) == Field_constructor(BigIntIn(fromBeBytesLoop(bytes, 0)))

RECURSIVE radixBitsLoop(_, _)
\* while ((r >>= 1) > 0) radixBits++
radixBitsLoop(r, radixBits) ==
    IF Shr(r, 1) > 0 THEN radixBitsLoop(Shr(r, 1), radixBits + 1) ELSE radixBits

RECURSIVE bitsLoop(_, _)
\* while (v > 0n) { v >>= 1n; bits++ }
bitsLoop(v, bits) == IF v > 0 THEN bitsLoop(Shr(v, 1), bits + 1) ELSE bits

RECURSIVE roundedLoop(_, _)
\* while (rounded < rawLen) rounded <<= 1
roundedLoop(rounded, rawLen) ==
    IF rounded < rawLen THEN roundedLoop(2 * rounded, rawLen) ELSE rounded

\* The variant that returns the digit count without rounding it up to a
\* power of two.
minRadixLength_unrounded(value, radix) ==
    IF value < 0 THEN Err(<<"value must be non-negative">>)
    ELSE IF NumAnd(radix, radix - 1) # 0 THEN Err(<<"radix must be a power of 2">>)
    ELSE IF radix < 2 THEN Err(<<"radix must be >= 2">>)
    ELSE IF value = 0 THEN Ok(1)
    ELSE Ok(CeilDiv(bitsLoop(value, 0), radixBitsLoop(radix, 0)))

minRadixLength(value, radix) ==
    IF value < 0 THEN Err(<<"value must be non-negative">>)
    ELSE IF NumAnd(radix, radix - 1) # 0 THEN Err(<<"radix must be a power of 2">>)
    ELSE IF radix < 2 THEN Err(<<"radix must be >= 2">>)
    ELSE IF value = 0 THEN Ok(1)
    ELSE LET radixBits == radixBitsLoop(radix, 0)
             bits == bitsLoop(value, 0)
             rawLen == CeilDiv(bits, radixBits)
         IN  Ok(roundedLoop(1, rawLen))

\* The largest number of digits toLeRadix and toBeRadix return.
MAX_RADIX_LENGTH == 256

RECURSIVE radixDigits(_, _, _)
\* for (i < length) { digits.push(Number(v % r)); v /= r }: once v is 0 it
\* stays 0 and every further digit is 0.
radixDigits(v, r, n) ==
    IF n <= 0 THEN <<>>
    ELSE IF v = 0 THEN [i \in 1..n |-> 0]
    ELSE <<JsRem(v, r)>> \o radixDigits(JsDiv(v, r), r, n - 1)

toLeRadix(value, radix, n) ==
    LET minimumRequired == minRadixLength(value, radix)
    IN  IF ~minimumRequired.ok THEN minimumRequired
        ELSE IF n < minimumRequired.value \/ n > MAX_RADIX_LENGTH
        THEN Err(LengthMessage(minimumRequired.value, MAX_RADIX_LENGTH))
        ELSE Ok(radixDigits(value, radix, n))

\* The variant that returns the digits in the order of toLeRadix.
toBeRadix_unreversed(value, radix, n) == toLeRadix(value, radix, n)

toBeRadix(value, radix, n) ==
    LET minimumRequired == minRadixLength(value, radix)
    IN  IF ~minimumRequired.ok THEN minimumRequired
        ELSE IF n < minimumRequired.value \/ n > MAX_RADIX_LENGTH
        THEN Err(LengthMessage(minimumRequired.value, MAX_RADIX_LENGTH))
        ELSE Ok(Reverse(radixDigits(value, radix, n)))

----------------------------------------------------------------------------
(* AbstractInteger and its concrete types.                                 *)

IntTypes == {"U8", "I8"}

MIN_VALUE(T) == IF T = "U8" THEN 0 ELSE -128

MAX_VALUE(T) == IF T = "U8" THEN 255 ELSE 127

\* super(input), then IntegerValidator(min, max).parse(input).
AbstractInteger_constructor(T, in) ==
    LET super == Field_constructor(in)
        checked == IntegerValidator(MIN_VALUE(T), MAX_VALUE(T), in)
    IN  IF ~super.ok THEN super
        ELSE IF ~checked.ok THEN checked
        ELSE Ok(super.value)

\* new ConcreteClass(value), value a BigInt (or the BigInt of a Field).
newInstance(T, value) == AbstractInteger_constructor(T, BigIntIn(value))

\* this.newInstance(super.add(other)), and so on: the Field result goes
\* through the constructor of the concrete type.
Rewrapped(T, res) == IF res.ok THEN newInstance(T, res.value) ELSE res

AbstractInteger_add(T, a, b) == Rewrapped(T, add(a, b))

AbstractInteger_sub(T, a, b) == Rewrapped(T, sub(a, b))

AbstractInteger_mul(T, a, b) == Rewrapped(T, mul(a, b))

AbstractInteger_div(T, a, b) == Rewrapped(T, div(a, b))

\* super.mod(other) as this: the Field result as it is.
AbstractInteger_mod(T, a, b) == mod(a, b)

wrappingAdd(T, a, b) ==
    LET min == MIN_VALUE(T)
        max == MAX_VALUE(T)
        range == max - min + 1
        mask == range - 1
        sum == JsAnd((a - min) + (b - min), mask)
    IN  newInstance(T, sum + min)

wrappingSub(T, a, b) ==
    LET min == MIN_VALUE(T)
        max == MAX_VALUE(T)
        range == max - min + 1
        mask == range - 1
        diff == JsAnd((a - min) - (b - min), mask)
    IN  newInstance(T, diff + min)

wrappingMul(T, a, b) ==
    LET min == MIN_VALUE(T)
        max == MAX_VALUE(T)
        range == max - min + 1
        mask == range - 1
        prod == JsAnd((a - min) * (b - min), mask)
    IN  newInstance(T, prod + min)

----------------------------------------------------------------------------
(* Specification of Field: two raw inputs x and y, fixed by Init; the      *)
(* actions construct a Field from x, or construct both and combine them.   *)

\* How far below zero and above MODULUS the second operand ranges.
Margin == 3

FieldValues ==
    {-MODULUS - 1, -MODULUS, -2, -1, 0, 1, 2, 5, MODULUS - 1, MODULUS, MODULUS + 1,
     MAX_FIELD, MAX_FIELD + 1}

FieldStrings ==
    { <<"0">>, <<"7">>, <<"3", "8", "2">>, <<"3", "8", "3">>, <<"5", "1", "1">>,
      <<"5", "1", "2">>, <<"0", "x", "1", "7", "f">>, <<"0", "x", "1", "F", "F">>,
      <<"0", "x", "2", "0", "0">>, <<"0", "x", "0", "a">>,
      <<>>, <<"0", "x">>, <<"-", "5">>, <<"1", "a">>, <<"x", "1">> }

FieldInputsX ==
    {NumberIn(n) : n \in FieldValues} \cup {FractionIn(1)}
        \cup {BigIntIn(n) : n \in FieldValues}
        \cup {StringIn(s) : s \in FieldStrings}

FieldInputsY ==
    {BigIntIn(n) : n \in (-Margin .. MODULUS + Margin) \cup {-MODULUS, MAX_FIELD}}

NoVec == maxSize = 0 /\ length = 0 /\ items = <<>> /\ heap = <<>>

InitField ==
    /\ input \in [ty : {"Field"}, x : FieldInputsX, y : FieldInputsY]
    /\ op = "init"
    /\ result = Ok(0)
    /\ NoVec

\* The Fields a and b that the binary operations act on.
FieldA == Field_constructor(input.x)

FieldB == Field_constructor(input.y)

NewField ==
    /\ op' = "new Field"
    /\ result' = Field_constructor(input.x)
    /\ UNCHANGED <<input, maxSize, length, items, heap>>

Div ==
    /\ FieldA.ok /\ FieldB.ok
    /\ op' = "div"
    /\ result' = div(FieldA.value, FieldB.value)
    /\ UNCHANGED <<input, maxSize, length, items, heap>>

Pow32 ==
    /\ FieldA.ok /\ FieldB.ok
    /\ op' = "pow32"
    /\ result' = pow32(FieldA.value, FieldB.value)
    /\ UNCHANGED <<input, maxSize, length, items, heap>>

\* b.equals(x), x the raw input.
Equals ==
    /\ FieldB.ok
    /\ op' = "equals"
    /\ result' = equals(FieldB.value, input.x)
    /\ UNCHANGED <<input, maxSize, length, items, heap>>

\* b.equals(new Field(x))
EqualsField ==
    /\ FieldA.ok /\ FieldB.ok
    /\ op' = "equals Field"
    /\ result' = equalsField(FieldB.value, FieldA.value)
    /\ UNCHANGED <<input, maxSize, length, items, heap>>

NextField == NewField \/ Div \/ Pow32 \/ Equals \/ EqualsField

SpecField == InitField /\ [][NextField]_vars

----------------------------------------------------------------------------
(* Specification of the bounded integers: a type and two raw inputs.       *)

IntValues(T) ==
    {MIN_VALUE(T) - 1, MIN_VALUE(T), MIN_VALUE(T) + 1, -111, -1, 0, 1, 2, 100, 111,
     127, 128, 200, MAX_VALUE(T) - 1, MAX_VALUE(T), MAX_VALUE(T) + 1,
     MAX_FIELD, MAX_FIELD + 1}

IntStrings == { <<"5">>, <<"-", "5">>, <<"3", "0", "0">>, <<"0", "x", "1", "0">> }

IntInputs(T) ==
    {NumberIn(n) : n \in IntValues(T)} \cup {FractionIn(1)}
        \cup {BigIntIn(n) : n \in IntValues(T)}
        \cup {StringIn(s) : s \in IntStrings}

InitInt ==
    /\ \E T \in IntTypes :
          input \in [ty : {T}, x : IntInputs(T), y : IntInputs(T)]
    /\ op = "init"
    /\ result = Ok(0)
    /\ NoVec

\* The instances a and b that the binary operations act on.
IntA == AbstractInteger_constructor(input.ty, input.x)

IntB == AbstractInteger_constructor(input.ty, input.y)

NewInteger ==
    /\ op' = "new Integer"
    /\ result' = AbstractInteger_constructor(input.ty, input.x)
    /\ UNCHANGED <<input, maxSize, length, items, heap>>

WrappingAdd ==
    /\ IntA.ok /\ IntB.ok
    /\ op' = "wrappingAdd"
    /\ result' = wrappingAdd(input.ty, IntA.value, IntB.value)
    /\ UNCHANGED <<input, maxSize, length, items, heap>>

WrappingSub ==
    /\ IntA.ok /\ IntB.ok
    /\ op' = "wrappingSub"
    /\ result' = wrappingSub(input.ty, IntA.value, IntB.value)
    /\ UNCHANGED <<input, maxSize, length, items, heap>>

WrappingMul ==
    /\ IntA.ok /\ IntB.ok
    /\ op' = "wrappingMul"
    /\ result' = wrappingMul(input.ty, IntA.value, IntB.value)
    /\ UNCHANGED <<input, maxSize, length, items, heap>>

IntAdd ==
    /\ IntA.ok /\ IntB.ok
    /\ op' = "add"
    /\ result' = AbstractInteger_add(input.ty, IntA.value, IntB.value)
    /\ UNCHANGED <<input, maxSize, length, items, heap>>

IntSub ==
    /\ IntA.ok /\ IntB.ok
    /\ op' = "sub"
    /\ result' = AbstractInteger_sub(input.ty, IntA.value, IntB.value)
    /\ UNCHANGED <<input, maxSize, length, items, heap>>

IntMul ==
    /\ IntA.ok /\ IntB.ok
    /\ op' = "mul"
    /\ result' = AbstractInteger_mul(input.ty, IntA.value, IntB.value)
    /\ UNCHANGED <<input, maxSize, length, items, heap>>

IntDiv ==
    /\ IntA.ok /\ IntB.ok
    /\ op' = "div"
    /\ result' = AbstractInteger_div(input.ty, IntA.value, IntB.value)
    /\ UNCHANGED <<input, maxSize, length, items, heap>>

IntMod ==
    /\ IntA.ok /\ IntB.ok
    /\ op' = "mod"
    /\ result' = AbstractInteger_mod(input.ty, IntA.value, IntB.value)
    /\ UNCHANGED <<input, maxSize, length, items, heap>>

NextInt ==
    \/ NewInteger \/ WrappingAdd \/ WrappingSub \/ WrappingMul
    \/ IntAdd \/ IntSub \/ IntMul \/ IntDiv \/ IntMod

SpecInt == InitInt /\ [][NextInt]_vars

----------------------------------------------------------------------------
(* Properties of Field, checked under SpecField.                           *)

\* What each string of FieldStrings denotes, read by hand; a string that is
\* absent is neither a decimal nor a 0x-hexadecimal numeral.
StringMeaning ==
    { << <<"0">>, 0 >>, << <<"7">>, 7 >>, << <<"3", "8", "2">>, 382 >>,
      << <<"3", "8", "3">>, 383 >>, << <<"5", "1", "1">>, 511 >>,
      << <<"5", "1", "2">>, 512 >>, << <<"0", "x", "1", "7", "f">>, 383 >>,
      << <<"0", "x", "1", "F", "F">>, 511 >>, << <<"0", "x", "2", "0", "0">>, 512 >>,
      << <<"0", "x", "0", "a">>, 10 >> }

IsNumeral(s) == \E m \in StringMeaning : m[1] = s

NumeralValue(s) == (CHOOSE m \in StringMeaning : m[1] = s)[2]

\* The input is an integer written in one of the accepted forms.
IsIntegerInput(in) ==
    \/ in.kind = "number" /\ in.int
    \/ in.kind = "bigint"
    \/ in.kind = "string" /\ IsNumeral(in.s)

IntegerOf(in) == IF in.kind = "string" THEN NumeralValue(in.s) ELSE in.n

\* C1 (as claimed): every Field that construction returns has
\* 0 <= value < MODULUS.
C1_ValueIsResidue ==
    (op = "new Field" /\ result.ok) => (0 <= result.value /\ result.value < MODULUS)

C9_DivInvertsMul ==
    (op = "div") =>
        IF FieldB.value = 0
        THEN result = Err(<<"Division by zero">>)
        ELSE /\ result.ok
             /\ 0 <= result.value /\ result.value < MODULUS
             /\ mul(result.value, FieldB.value) = Ok(FieldA.value)

RECURSIVE PowMod(_, _)
\* b^e mod MODULUS by e multiplications, each reduced into [0, MODULUS).
PowMod(b, e) == IF e = 0 THEN 1 % MODULUS ELSE (b * PowMod(b, e - 1)) % MODULUS

\* C10 (as claimed): b.pow32(e) throws 'Exponent too large' when e >= MAX_EXP
\* and otherwise returns b^e mod MODULUS.
C10_PowIsModularPower ==
    (op = "pow32") =>
        IF FieldB.value >= MAX_EXP
        THEN result = Err(<<"Exponent too large: exceeds 2^32 limit">>)
        ELSE /\ result.ok
             /\ FieldB.value >= 0 => result.value = PowMod(FieldA.value, FieldB.value)

\* Both operands are residues in [0, MODULUS).
ResidueOperands ==
    /\ 0 <= FieldA.value /\ FieldA.value < MODULUS
    /\ 0 <= FieldB.value /\ FieldB.value < MODULUS

\* On residues div inverts mul and never reports 'not invertible'.
DivOnResidues == ResidueOperands => C9_DivInvertsMul

\* On residues pow32 is the modular power.
PowOnResidues == ResidueOperands => C10_PowIsModularPower

----------------------------------------------------------------------------
(* Properties of the bounded integers, checked under SpecInt.              *)

\* What each string of IntStrings denotes, read by hand.
IntStringMeaning ==
    { << <<"5">>, 5 >>, << <<"-", "5">>, -5 >>, << <<"3", "0", "0">>, 300 >>,
      << <<"0", "x", "1", "0">>, 16 >> }

\* The integer an input denotes (every input but the fractional number).
DenotesInteger(in) == ~(in.kind = "number" /\ ~in.int)

Denoted(in) ==
    IF in.kind = "string" THEN (CHOOSE m \in IntStringMeaning : m[1] = in.s)[2]
    ELSE in.n

InRange(T, n) == MIN_VALUE(T) <= n /\ n <= MAX_VALUE(T)

\* The out-of-range message with each type's bounds, written out.
ExpectedRangeMessage(T) ==
    IF T = "U8"
    THEN <<"Value must be in range [", "0", ", ", "2", "5", "5", "]">>
    ELSE <<"Value must be in range [", "-", "1", "2", "8", ", ", "1", "2", "7", "]">>

\* C2 (as claimed): construction from a value outside [MIN, MAX] throws
\* 'Value must be in range [MIN, MAX]' with the type's bounds, and every
\* instance returned has MIN <= value <= MAX.
C2_OutOfRangeRejected ==
    (op = "new Integer") =>
        /\ (DenotesInteger(input.x) /\ ~InRange(input.ty, Denoted(input.x)))
              => result = Err(ExpectedRangeMessage(input.ty))
        /\ result.ok => InRange(input.ty, result.value)

\* The part of C2 that does not depend on the message: no instance outside
\* [MIN, MAX] is ever returned, by the constructor or by a wrapping operation.
InstancesInRange == (op # "init" /\ result.ok) => InRange(input.ty, result.value)

Range(T) == MAX_VALUE(T) - MIN_VALUE(T) + 1

Congruent(T, v, w) == (v - w) % Range(T) = 0

\* C3 (as claimed): a.wrappingAdd(b) never throws and returns an in-range
\* value congruent to a.value + b.value modulo MAX - MIN + 1.
C3_WrappingAddCongruent ==
    (op = "wrappingAdd") =>
        /\ result.ok
        /\ InRange(input.ty, result.value)
        /\ Congruent(input.ty, result.value, IntA.value + IntB.value)

\* The string is the decimal numeral of n, read digit by digit.
ReadsAs(str, n) ==
    IF n < 0
    THEN Len(str) >= 2 /\ str[1] = "-" /\ MatchesDecimal(Tail(str))
            /\ ParseDigits(Tail(str), 10, 0) = -n
    ELSE MatchesDecimal(str) /\ ParseDigits(str, 10, 0) = n

\* C7 (as claimed): every v with MIN <= v <= MAX, given as a native number or
\* as a BigInt, constructs, and toString() is the decimal numeral of v.
C7_InRangeConstructs ==
    (/\ op = "new Integer"
     /\ input.x.kind \in {"number", "bigint"}
     /\ input.x.int
     /\ InRange(input.ty, input.x.n))
        => /\ result.ok
           /\ ReadsAs(Field_toString(result.value), input.x.n)

\* C8 (as claimed): a.wrappingSub(b) and a.wrappingMul(b) never throw and
\* return in-range values congruent to a.value - b.value and to
\* a.value * b.value modulo MAX - MIN + 1.
C8_WrappingSubMulCongruent ==
    /\ (op = "wrappingSub") =>
          /\ result.ok
          /\ InRange(input.ty, result.value)
          /\ Congruent(input.ty, result.value, IntA.value - IntB.value)
    /\ (op = "wrappingMul") =>
          /\ result.ok
          /\ InRange(input.ty, result.value)
          /\ Congruent(input.ty, result.value, IntA.value * IntB.value)

\* For the unsigned type, where MIN = 0, the three wrapping operations are
\* congruent to the exact result.
WrappingOnUnsigned ==
    (input.ty = "U8") => (C3_WrappingAddCongruent /\ C8_WrappingSubMulCongruent)

\* From BigInt inputs every in-range value constructs and prints as itself.
BigIntInRangeConstructs == (input.x.kind = "bigint") => C7_InRangeConstructs

----------------------------------------------------------------------------
(* DataType values and the serializer.  A value is a record with the class *)
(* it is an instance of (tag), its concrete integer type (ty) and its      *)
(* content; a Bool holds 1 for true and 0 for false.                       *)

FieldOf(v) == [tag |-> "Field", ty |-> "Field", value |-> v]

IntegerOfType(T, v) == [tag |-> "AbstractInteger", ty |-> T, value |-> v]

BoolOf(b) == [tag |-> "Bool", ty |-> "Bool", value |-> b]

\* What an array slot that was never written reads as.
Undefined == [tag |-> "undefined", ty |-> "undefined", value |-> 0]

StrOf(s) == [tag |-> "Str", ty |-> "Str", value |-> 0, text |-> s]

\* A FixedSizeArray object: its length and its items.
FixedSizeArrayOf(its) ==
    [tag |-> "FixedSizeArray", ty |-> "FixedSizeArray", value |-> 0,
     length |-> Len(its), items |-> its]

\* A BoundedVec object held as a value.
BoundedVecOf(vec) ==
    [tag |-> "BoundedVec", ty |-> "BoundedVec", value |-> 0,
     maxSize |-> vec.maxSize, length |-> vec.length, items |-> vec.items]

\* A StructMap: a plain object, its keys in insertion order and their values.
StructMapOf(keys, vals) ==
    [tag |-> "object", ty |-> "StructMap", value |-> 0, keys |-> keys, vals |-> vals]

\* Values that are no DataType; tag is what typeof reports (null apart).
Null == [tag |-> "null", ty |-> "null", value |-> 0]

RawNumber(k) == [tag |-> "number", ty |-> "number", value |-> k]

RawString(s) == [tag |-> "string", ty |-> "string", value |-> 0, text |-> s]

RawBoolean(b) == [tag |-> "boolean", ty |-> "boolean", value |-> b]

\* A native array; typeof reports 'object' for it.
RawArray(its) == [tag |-> "object", ty |-> "Array", value |-> 0, items |-> its]

\* Bool.toCircuitInputs(): the primitive boolean.
Bool_toCircuitInputs(value) ==
    [kind |-> "boolean", text |-> IF value.value = 1 THEN <<"true">> ELSE <<"false">>]

\* Str.toCircuitInputs(): the primitive string.
Str_toCircuitInputs(value) == [kind |-> "string", text |-> value.text]

\* Object.entries(value): the own enumerable properties; those of a native
\* array are its indices, as strings.
EntryKeys(value) ==
    IF value.ty = "Array" THEN [i \in 1..Len(value.items) |-> BigIntToString(i - 1, 10)]
    ELSE value.keys

EntryValues(value) == IF value.ty = "Array" THEN value.items ELSE value.vals

RECURSIVE getInputRepresentation(_)
RECURSIVE mapRepresentation(_)
\* arr.map(getInputRepresentation): the first throw ends the map.
mapRepresentation(arr) ==
    IF arr = <<>> THEN Ok(<<>>)
    ELSE LET first == getInputRepresentation(Head(arr))
             rest == mapRepresentation(Tail(arr))
         IN  IF ~first.ok THEN first
             ELSE IF ~rest.ok THEN rest
             ELSE Ok(<<first.value>> \o rest.value)

\* The variant without the AbstractInteger branch: an integer is a Field.
getInputRepresentation_integerAsField(value) ==
    IF value.tag = "Bool" THEN Ok(Bool_toCircuitInputs(value))
    ELSE IF value.tag = "Str" THEN Ok(Str_toCircuitInputs(value))
    ELSE IF value.tag \in {"Field", "AbstractInteger"}
    THEN Ok([kind |-> "string", text |-> toHex(value.value)])
    ELSE IF value.tag = "BoundedVec"
    THEN LET storage == mapRepresentation(value.items)
         IN  IF storage.ok
             THEN Ok([kind |-> "BoundedVec", storage |-> storage.value, len |-> value.length])
             ELSE storage
    ELSE IF value.tag = "FixedSizeArray"
    THEN LET elems == mapRepresentation(value.items)
         IN  IF elems.ok THEN Ok([kind |-> "array", elems |-> elems.value]) ELSE elems
    ELSE IF value.tag = "object"
    THEN LET vals == mapRepresentation(EntryValues(value))
         IN  IF vals.ok
             THEN Ok([kind |-> "object", keys |-> EntryKeys(value), vals |-> vals.value])
             ELSE vals
    ELSE Err(<<"Invalid value type: ", value.tag>>)

\* The instanceof chain, in the order of the code: an AbstractInteger is
\* encoded by toString() before the Field branch can see it; whatever else
\* typeof calls an object is walked through Object.entries.
getInputRepresentation(value) ==
    IF value.tag = "AbstractInteger"
    THEN Ok([kind |-> "string", text |-> Field_toString(value.value)])
    ELSE IF value.tag = "Bool" THEN Ok(Bool_toCircuitInputs(value))
    ELSE IF value.tag = "Str" THEN Ok(Str_toCircuitInputs(value))
    ELSE IF value.tag = "Field"
    THEN Ok([kind |-> "string", text |-> toHex(value.value)])
    ELSE IF value.tag = "BoundedVec"
    THEN LET storage == mapRepresentation(value.items)
         IN  IF storage.ok
             THEN Ok([kind |-> "BoundedVec", storage |-> storage.value, len |-> value.length])
             ELSE storage
    ELSE IF value.tag = "FixedSizeArray"
    THEN LET elems == mapRepresentation(value.items)
         IN  IF elems.ok THEN Ok([kind |-> "array", elems |-> elems.value]) ELSE elems
    ELSE IF value.tag = "object"
    THEN LET vals == mapRepresentation(EntryValues(value))
         IN  IF vals.ok
             THEN Ok([kind |-> "object", keys |-> EntryKeys(value), vals |-> vals.value])
             ELSE vals
    ELSE Err(<<"Invalid value type: ", value.tag>>)

\* toCircuitInputs(value: StructMap)
toCircuitInputs(value) == getInputRepresentation(value)

----------------------------------------------------------------------------
(* BoundedVec.  The operations act on a record [maxSize, length, items]    *)
(* and return it with the outcome of the call.                             *)

Returned(vec, v) == [vec |-> vec, ok |-> TRUE, value |-> v, error |-> <<>>]

Thrown(vec, msg) == [vec |-> vec, ok |-> FALSE, value |-> 0, error |-> msg]

\* arr[index] = item on a JavaScript array, index >= 0: a write past the end
\* grows the array, leaving the slots in between empty.
RECURSIVE ArrayWrite(_, _, _)
ArrayWrite(arr, index, item) ==
    IF index < Len(arr) THEN [arr EXCEPT ![index + 1] = item]
    ELSE IF index = Len(arr) THEN Append(arr, item)
    ELSE ArrayWrite(Append(arr, Undefined), index, item)

len(vec) == vec.length

maxLen(vec) == vec.maxSize

isEmpty(vec) == vec.length = 0

isFull_offByOne(vec) == vec.length = vec.maxSize + 1

isFull(vec) == vec.length = vec.maxSize

\* The variant that checks the index against the capacity.
get_withinStorage(vec, index) ==
    IF index < 0 \/ index >= vec.maxSize THEN Thrown(vec, <<"Index out of bounds">>)
    ELSE Returned(vec, vec.items[index + 1])

get(vec, index) ==
    IF index < 0 \/ index >= vec.length THEN Thrown(vec, <<"Index out of bounds">>)
    ELSE Returned(vec, vec.items[index + 1])

at(vec, index) == get(vec, IF index < 0 THEN vec.length + index ELSE index)

\* The variant that counts the item without storing it.
push_notStored(vec, item) ==
    IF isFull(vec) THEN Thrown(vec, <<"Vector is full">>)
    ELSE Returned([vec EXCEPT !.length = vec.length + 1], 0)

push(vec, item) ==
    IF isFull(vec) THEN Thrown(vec, <<"Vector is full">>)
    ELSE Returned([vec EXCEPT !.items = ArrayWrite(vec.items, vec.length, item),
                              !.length = vec.length + 1], 0)

set(vec, index, item) ==
    IF index < 0 \/ index >= vec.length THEN Thrown(vec, <<"Index out of bounds">>)
    ELSE Returned([vec EXCEPT !.items = ArrayWrite(vec.items, index, item)], 0)

pop(vec) ==
    IF isEmpty(vec) THEN Thrown(vec, <<"Vector is empty">>)
    ELSE Returned([vec EXCEPT !.length = vec.length - 1], vec.items[vec.length])

\* for (const item of arr) this.push(item): a push that throws ends the loop
\* and keeps what the earlier pushes wrote.
RECURSIVE pushEach(_, _)
pushEach(vec, arr) ==
    IF arr = <<>> THEN Returned(vec, 0)
    ELSE LET first == push(vec, Head(arr))
         IN  IF first.ok THEN pushEach(first.vec, Tail(arr)) ELSE first

\* The variant without the check before the loop.
extendFromArray_unchecked(vec, arr) == pushEach(vec, arr)

extendFromArray(vec, arr) ==
    IF vec.length + Len(arr) > vec.maxSize THEN Thrown(vec, <<"Vector overflow">>)
    ELSE pushEach(vec, arr)

\* items.slice(0, length)
toArray(vec) == SubSeq(vec.items, 1, vec.length)

extendFromVec(vec, other) == extendFromArray(vec, toArray(other))

\* The encoder applied to the logical elements only.
BoundedVec_toCircuitInputs_truncated(vec) ==
    LET storage == mapRepresentation(toArray(vec))
    IN  IF storage.ok THEN Returned(vec, [storage |-> storage.value, len |-> vec.length])
        ELSE Thrown(vec, storage.error)

BoundedVec_toCircuitInputs(vec) ==
    LET storage == mapRepresentation(vec.items)
    IN  IF storage.ok THEN Returned(vec, [storage |-> storage.value, len |-> vec.length])
        ELSE Thrown(vec, storage.error)

BoundedVec_constructor(size, defaultValue, initialItems) ==
    IF size < 0
    THEN Thrown([maxSize |-> size, length |-> 0, items |-> <<>>],
                <<"Max size must be non-negative">>)
    ELSE extendFromArray([maxSize |-> size, length |-> 0,
                          items |-> [i \in 1..size |-> defaultValue]], initialItems)

----------------------------------------------------------------------------
(* FixedSizeArray.  The operations act on a record [length, items] and     *)
(* return it with the outcome of the call.                                 *)

\* arr[index] on a JavaScript array: undefined outside the array.
ArrayRead(arr, index) ==
    IF 0 <= index /\ index < Len(arr) THEN arr[index + 1] ELSE Undefined

IndexMessage(index) == <<"Index ">> \o BigIntToString(index, 10) \o <<" out of bounds">>

FixedSizeArray_constructor(n, its) ==
    IF n # Len(its)
    THEN Thrown([length |-> 0, items |-> <<>>],
                <<"Length mismatch: expected ">> \o BigIntToString(n, 10)
                    \o <<", got ">> \o BigIntToString(Len(its), 10))
    ELSE Returned([length |-> n, items |-> its], 0)

\* The variant that keeps the caller's array itself: the array the caller
\* holds under the name held is the container's own storage.
SpreadCopy_sameObject(held) == {held}

\* [...array]: a new array object with the same elements.  The value is the
\* set of names under which the caller holds the very object the container
\* stores: the copy is held by nobody else.
SpreadCopy(held) == {}

FixedSizeArray_len(arr) == arr.length

FixedSizeArray_toArray(arr) == Returned(arr, arr.items)

\* The callbacks passed to forEach and map: "item" is (item) => item and
\* "index" is (item, index) => index.
Callbacks == {"item", "index"}

Call(callback, item, index) == IF callback = "item" THEN item ELSE index

\* forEach returns nothing; the callback's results are dropped.
FixedSizeArray_forEach(arr, callback) == Returned(arr, Undefined)

FixedSizeArray_map(arr, callback) ==
    Returned(arr, [i \in 1..Len(arr.items) |-> Call(callback, arr.items[i], i - 1)])

\* The variant that only checks the upper limit.
FixedSizeArray_get_upperOnly(arr, index) ==
    IF index >= arr.length THEN Thrown(arr, IndexMessage(index))
    ELSE Returned(arr, ArrayRead(arr.items, index))

FixedSizeArray_get(arr, index) ==
    IF index < 0 \/ index >= arr.length THEN Thrown(arr, IndexMessage(index))
    ELSE Returned(arr, ArrayRead(arr.items, index))

FixedSizeArray_at(arr, index) ==
    LET adjustedIndex == IF index < 0 THEN arr.length + index ELSE index
    IN  FixedSizeArray_get(arr, adjustedIndex)

FixedSizeArray_set(arr, index, item) ==
    IF index < 0 \/ index >= arr.length THEN Thrown(arr, IndexMessage(index))
    ELSE Returned([arr EXCEPT !.items = ArrayWrite(arr.items, index, item)], 0)

FixedSizeArray_toCircuitInputs(arr) ==
    LET elems == mapRepresentation(arr.items)
    IN  IF elems.ok THEN Returned(arr, [kind |-> "array", elems |-> elems.value])
        ELSE Thrown(arr, elems.error)

----------------------------------------------------------------------------
(* Specification of BoundedVec: Init is any vector the constructor         *)
(* returns; each action is one call on it.  input keeps the arguments of   *)
(* the call, and len() and the storage before it.  heap keeps the caller's *)
(* side: the default it gave to the constructor, and the plain sequence it *)
(* expects the vector to hold, before and after the call.                  *)

\* The largest capacity, and the longest array passed to a call.
MaxCap == 3

MaxArr == 2

Elems == {FieldOf(0), IntegerOfType("U8", 7)}

Arrs == UNION {[1..n -> Elems] : n \in 0..MaxArr}

Indices == -(MaxCap + 1) .. MaxCap

Self == [maxSize |-> maxSize, length |-> length, items |-> items]

Args(item, index, arr) ==
    [item |-> item, index |-> index, arr |-> arr, len |-> length, items |-> items]

InitVec ==
    \E size \in 0..MaxCap, defaultValue \in Elems, initialItems \in Arrs :
        LET made == BoundedVec_constructor(size, defaultValue, initialItems)
        IN  /\ made.ok
            /\ maxSize = made.vec.maxSize
            /\ length = made.vec.length
            /\ items = made.vec.items
            /\ input = [item |-> defaultValue, index |-> 0, arr |-> initialItems,
                        len |-> 0, items |-> <<>>]
            /\ op = "new BoundedVec"
            /\ result = Ok(0)
            /\ heap = [default |-> defaultValue, before |-> <<>>,
                       model |-> initialItems]

\* The call's outcome becomes the next state: the vector as the call left
\* it, and what the call returned or threw.  expected is the caller's
\* sequence after the call when the call succeeds; a call that throws
\* leaves it alone.
Becomes(out, expected) ==
    /\ maxSize' = out.vec.maxSize
    /\ length' = out.vec.length
    /\ items' = out.vec.items
    /\ result' = [ok |-> out.ok, value |-> out.value, error |-> out.error]
    /\ heap' = [heap EXCEPT !.before = heap.model,
                            !.model = IF out.ok THEN expected ELSE @]

\* The plain sequences the caller keeps next to the vector.
ModelPop(model) == SubSeq(model, 1, Len(model) - 1)

ModelSet(model, index, item) == [model EXCEPT ![index + 1] = item]

Push ==
    \E item \in Elems :
        /\ op' = "push"
        /\ input' = Args(item, 0, <<>>)
        /\ Becomes(push(Self, item), Append(heap.model, item))

Pop ==
    /\ op' = "pop"
    /\ input' = Args(Undefined, 0, <<>>)
    /\ Becomes(pop(Self), ModelPop(heap.model))

Set ==
    \E index \in Indices, item \in Elems :
        /\ op' = "set"
        /\ input' = Args(item, index, <<>>)
        /\ Becomes(set(Self, index, item), ModelSet(heap.model, index, item))

Get ==
    \E index \in Indices :
        /\ op' = "get"
        /\ input' = Args(Undefined, index, <<>>)
        /\ Becomes(get(Self, index), heap.model)

At ==
    \E index \in Indices :
        /\ op' = "at"
        /\ input' = Args(Undefined, index, <<>>)
        /\ Becomes(at(Self, index), heap.model)

ExtendFromArray ==
    \E arr \in Arrs :
        /\ op' = "extendFromArray"
        /\ input' = Args(Undefined, 0, arr)
        /\ Becomes(extendFromArray(Self, arr), heap.model \o arr)

\* The other vector is this one or a vector built from an array.
ExtendFromVec ==
    \E arr \in Arrs, same \in BOOLEAN :
        LET other == IF same THEN Self
                     ELSE BoundedVec_constructor(MaxArr, FieldOf(0), arr).vec
        IN  /\ op' = "extendFromVec"
            /\ input' = Args(Undefined, 0, toArray(other))
            /\ Becomes(extendFromVec(Self, other), heap.model \o toArray(other))

ToCircuitInputs ==
    /\ op' = "toCircuitInputs"
    /\ input' = Args(Undefined, 0, <<>>)
    /\ Becomes(BoundedVec_toCircuitInputs(Self), heap.model)

NextVec ==
    \/ Push \/ Pop \/ Set \/ Get \/ At
    \/ ExtendFromArray \/ ExtendFromVec \/ ToCircuitInputs

SpecVec == InitVec /\ [][NextVec]_vars

----------------------------------------------------------------------------
(* Properties of BoundedVec, checked under SpecVec.                        *)

\* C4: after any sequence of calls, failed ones included,
\* 0 <= len() <= maxLen(); push throws 'Vector is full' exactly when len() was
\* maxLen(), and pop throws 'Vector is empty' exactly when len() was 0.
C4_LengthWithinCapacity ==
    /\ 0 <= len(Self) /\ len(Self) <= maxLen(Self)
    /\ (op = "push") =>
          /\ (result.error = <<"Vector is full">>) = (input.len = maxLen(Self))
          /\ result.ok = (input.len # maxLen(Self))
    /\ (op = "pop") =>
          /\ (result.error = <<"Vector is empty">>) = (input.len = 0)
          /\ result.ok = (input.len # 0)

\* A vector of capacity 2 holding two elements has refused a push.
C4_Witness ==
    /\ op = "push"
    /\ result.error = <<"Vector is full">>
    /\ maxSize = 2
    /\ length = 2

\* C5: toCircuitInputs() returns {storage, len} where storage has one encoded
\* entry per backing slot, maxSize of them whatever the logical length, and
\* len is len().
C5_StorageNotTruncated ==
    (op = "toCircuitInputs") =>
        /\ result.ok
        /\ Len(result.value.storage) = maxSize
        /\ \A i \in 1..Len(result.value.storage) :
              Ok(result.value.storage[i]) = getInputRepresentation(items[i])
        /\ result.value.len = len(Self)

\* A vector with free slots was encoded with all of its slots.
C5_Witness ==
    /\ op = "toCircuitInputs"
    /\ result.ok
    /\ 1 <= length /\ length < maxSize
    /\ Len(result.value.storage) = maxSize

----------------------------------------------------------------------------
(* Specification of the decompositions: a raw input x, a radix and a       *)
(* length, fixed by Init; each action constructs the Field from x and      *)
(* applies one conversion to it.  FromLeBytes and FromBeBytes read back    *)
(* the bytes the conversion before them returned.                          *)

\* The largest length handed to a conversion, besides those around
\* MAX_RADIX_LENGTH.
MaxLength == 17

DecompValues ==
    (-Margin .. 2^4) \cup {2^k + d : k \in 6..8, d \in {-1, 0, 1}}
        \cup {300, MODULUS - 1, MODULUS, MODULUS + 1, MAX_FIELD, MAX_FIELD + 1}

Radixes == {-2, 0, 1, 2, 3, 4, 6, 16, 256, 512}

Lengths == (-1 .. MaxLength) \cup {MAX_RADIX_LENGTH, MAX_RADIX_LENGTH + 1}

InitDecomp ==
    /\ input \in [ty : {"Field"}, x : {BigIntIn(v) : v \in DecompValues},
                  radix : Radixes, length : Lengths]
    /\ op = "init"
    /\ result = Ok(<<>>)
    /\ NoVec

ToLeBits ==
    /\ FieldA.ok
    /\ op' = "toLeBits"
    /\ result' = toLeBits(FieldA.value, input.length)
    /\ UNCHANGED <<input, maxSize, length, items, heap>>

ToBeBits ==
    /\ FieldA.ok
    /\ op' = "toBeBits"
    /\ result' = toBeBits(FieldA.value, input.length)
    /\ UNCHANGED <<input, maxSize, length, items, heap>>

ToLeBytes ==
    /\ FieldA.ok
    /\ op' = "toLeBytes"
    /\ result' = toLeBytes(FieldA.value, input.length)
    /\ UNCHANGED <<input, maxSize, length, items, heap>>

ToBeBytes ==
    /\ FieldA.ok
    /\ op' = "toBeBytes"
    /\ result' = toBeBytes(FieldA.value, input.length)
    /\ UNCHANGED <<input, maxSize, length, items, heap>>

\* Field.fromLeBytes(f.toLeBytes(length)); the state keeps the Field's value
\* as a one-element sequence.
FromLeBytes ==
    /\ op = "toLeBytes" /\ result.ok
    /\ op' = "fromLeBytes"
    /\ result' = LET f == fromLeBytes(result.value)
                 IN  IF f.ok THEN Ok(<<f.value>>) ELSE f
    /\ UNCHANGED <<input, maxSize, length, items, heap>>

FromBeBytes ==
    /\ op = "toBeBytes" /\ result.ok
    /\ op' = "fromBeBytes"
    /\ result' = LET f == fromBeBytes(result.value)
                 IN  IF f.ok THEN Ok(<<f.value>>) ELSE f
    /\ UNCHANGED <<input, maxSize, length, items, heap>>

ToLeRadix ==
    /\ FieldA.ok
    /\ op' = "toLeRadix"
    /\ result' = toLeRadix(FieldA.value, input.radix, input.length)
    /\ UNCHANGED <<input, maxSize, length, items, heap>>

ToBeRadix ==
    /\ FieldA.ok
    /\ op' = "toBeRadix"
    /\ result' = toBeRadix(FieldA.value, input.radix, input.length)
    /\ UNCHANGED <<input, maxSize, length, items, heap>>

NextDecomp ==
    \/ ToLeBits \/ ToBeBits \/ ToLeBytes \/ ToBeBytes
    \/ FromLeBytes \/ FromBeBytes \/ ToLeRadix \/ ToBeRadix

SpecDecomp == InitDecomp /\ [][NextDecomp]_vars

----------------------------------------------------------------------------
(* Properties of the decompositions, checked under SpecDecomp.             *)

\* The number of bits of v >= 0: the least k with v < 2^k.
BitLength(v) == CHOOSE k \in 0..(MAX_BIT_SIZE + 1) : v < 2^k /\ (k = 0 \/ v >= 2^(k - 1))

\* ceil(log2(v)) for v > 0: the least k with 2^k >= v.
CeilLog2(v) == CHOOSE k \in 0..(MAX_BIT_SIZE + 1) : 2^k >= v /\ (k = 0 \/ 2^(k - 1) < v)

BitOps == {"toLeBits", "toBeBits"}

ByteOps == {"toLeBytes", "toBeBytes"}

RadixOps == {"toLeRadix", "toBeRadix"}

ExpectedLengthMessage(min, max) ==
    <<"Length must be between ">> \o BigIntToString(min, 10) \o <<" and ">>
        \o BigIntToString(max, 10)

\* C11 (as claimed): toLeBits(length) and toBeBits(length) succeed exactly when
\* min <= length <= MAX_BIT_SIZE with min = ceil(log2(v)) + 1 for v > 0 and 0
\* for v = 0, and fail with 'Length must be between <min> and <max>' otherwise.
C11_CeilLog2Min ==
    (op \in BitOps /\ FieldA.value >= 0) =>
        LET v == FieldA.value
            min == IF v = 0 THEN 0 ELSE CeilLog2(v) + 1
        IN  IF min <= input.length /\ input.length <= MAX_BIT_SIZE
            THEN result.ok
            ELSE ~result.ok /\ result.error = ExpectedLengthMessage(min, MAX_BIT_SIZE)

\* C11 (amended): toLeBits(length) and toBeBits(length) succeed exactly when
\* the value v is non-negative and min <= length <= MAX_BIT_SIZE, where min is
\* the bit length of v: floor(log2(v)) + 1 for v > 0 and 0 for v = 0; for a
\* non-negative value every other length fails with 'Length must be between
\* <min> and <max>'.
C11_BitLengthWindow ==
    (op \in BitOps) =>
        LET v == FieldA.value
            inWindow == /\ v >= 0
                        /\ BitLength(v) <= input.length
                        /\ input.length <= MAX_BIT_SIZE
        IN  /\ result.ok = inWindow
            /\ (v >= 0 /\ ~inWindow)
                  => result.error = ExpectedLengthMessage(BitLength(v), MAX_BIT_SIZE)

\* 5 has been decomposed into 3 bits, one fewer than ceil(log2(5)) + 1.
C11_Witness ==
    /\ op = "toLeBits"
    /\ FieldA.value = 5
    /\ input.length = 3
    /\ result.ok

\* Bit i of v >= 0.
BitOf(v, i) == (v \div 2^i) % 2

\* A ceiling no digit sum of a Field value reaches.
SumCap == 2^20

RECURSIVE SumBe(_, _, _)
\* The number that big-endian digits denote in base r, capped at SumCap.
SumBe(digits, r, acc) ==
    IF digits = <<>> THEN acc
    ELSE LET next == acc * r + Head(digits)
         IN  SumBe(Tail(digits), r, IF next > SumCap THEN SumCap ELSE next)

\* The sum of digits[i] * r^i over little-endian digits, capped at SumCap: a
\* digit other than 0 at index 20 or above brings the sum to SumCap
\* whatever the base.
SumLe(digits, r) ==
    LET top == 20
        low == IF Len(digits) <= top THEN digits ELSE SubSeq(digits, 1, top)
    IN  IF \E i \in (top + 1)..Len(digits) : digits[i] # 0 THEN SumCap
        ELSE SumBe(Reverse(low), r, 0)

\* C12: for a valid length n, toLeBits(n) returns exactly n bits, entry i
\* being bit i of v, toBeBits(n) returns the same bits in reverse order, and
\* the sum of bits[i] * 2^i over the little-endian bits is v.
C12_BitsOfValue ==
    (op \in BitOps /\ result.ok) =>
        LET v == FieldA.value
            n == input.length
            bits == result.value
        IN  /\ Len(bits) = n
            /\ \A i \in 0..(n - 1) :
                  bits[i + 1] = BitOf(v, IF op = "toLeBits" THEN i ELSE n - 1 - i)
            /\ IF op = "toLeBits" THEN SumLe(bits, 2) = v ELSE SumBe(bits, 2, 0) = v

\* Field(300).toBeBits(9) has returned 1,0,0,1,0,1,1,0,0.
C12_Witness ==
    /\ op = "toBeBits"
    /\ FieldA.value = 300
    /\ input.length = 9
    /\ result.ok
    /\ result.value = <<1, 0, 0, 1, 0, 1, 1, 0, 0>>

\* C13: toLeBytes(length) and toBeBytes(length) succeed exactly when
\* ceil(bitlength(v) / 8) <= length <= the byte length of the modulus, with
\* bitlength(0) = 0, and fail with a length-out-of-range error otherwise.
C13_ByteLengthWindow ==
    (op \in ByteOps /\ FieldA.value >= 0) =>
        LET min == (BitLength(FieldA.value) + 7) \div 8
            max == Len(modLeBytes)
        IN  IF min <= input.length /\ input.length <= max
            THEN result.ok
            ELSE ~result.ok /\ result.error[1] = "Length must be between "

\* For every value but zero the byte window is the claimed one.
ByteWindowOfNonZero == (FieldA.value > 0) => C13_ByteLengthWindow

\* C14: fromBeBytes(f.toBeBytes(n)) equals f and fromLeBytes(f.toLeBytes(n))
\* equals f for every valid n, and toBeBytes(n) is the reverse of toLeBytes(n).
C14_BytesRoundTrip ==
    /\ (op \in {"fromLeBytes", "fromBeBytes"})
          => (result.ok /\ result.value = <<FieldA.value>>)
    /\ (op = "toBeBytes" /\ result.ok)
          => LET le == toLeBytes(FieldA.value, input.length)
             IN  /\ le.ok
                 /\ Len(result.value) = Len(le.value)
                 /\ \A i \in 1..Len(le.value) :
                       result.value[i] = le.value[Len(le.value) + 1 - i]

\* For a Field holding a residue the bytes read back as the Field.
BytesRoundTripOnResidues == (FieldA.value >= 0) => C14_BytesRoundTrip

\* The radixes the conversions are documented to take: 2, 4, ..., 256.
ValidRadix(r) == \E k \in 1..8 : r = 2^k

InvalidRadixErrors == {<<"radix must be a power of 2">>, <<"radix must be >= 2">>}

\* C15: toLeRadix and toBeRadix fail with an invalid-radix error for every
\* radix that is not a power of two in [2, 256], whatever the length.
C15_InvalidRadixRejected ==
    (op \in RadixOps /\ FieldA.value >= 0 /\ ~ValidRadix(input.radix)) =>
        (~result.ok /\ result.error \in InvalidRadixErrors)

\* Up to 256 every radix that is not a power of two is rejected.
RadixRejectedUpTo256 == (input.radix <= 256) => C15_InvalidRadixRejected

\* log2 of a valid radix.
RadixBits(r) == CHOOSE k \in 1..9 : r = 2^k

\* The least power of two p with p digits of radix r covering v >= 0.
MinDigits(v, r) ==
    IF v = 0 THEN 1
    ELSE CHOOSE p \in {2^k : k \in 0..4} :
            /\ p * RadixBits(r) >= BitLength(v)
            /\ \A q \in {2^k : k \in 0..4} : q * RadixBits(r) >= BitLength(v) => p <= q

\* C16: for a valid (r, n), toLeRadix(r, n) returns exactly n digits, each in
\* [0, r - 1], with the sum of digit[i] * r^i equal to v, and toBeRadix(r, n)
\* returns the same digits in reverse order.
C16_RadixDigitsOfValue ==
    /\ (op \in RadixOps /\ result.ok) =>
          LET v == FieldA.value
              r == input.radix
              digits == result.value
          IN  /\ Len(digits) = input.length
              /\ \A i \in 1..Len(digits) : 0 <= digits[i] /\ digits[i] <= r - 1
              /\ IF op = "toLeRadix" THEN SumLe(digits, r) = v
                 ELSE SumLe(Reverse(digits), r) = v
    /\ (op \in RadixOps /\ FieldA.value >= 0 /\ ValidRadix(input.radix)
            /\ MinDigits(FieldA.value, input.radix) <= input.length
            /\ input.length <= MAX_RADIX_LENGTH)
          => result.ok

\* Field(300).toBeRadix(2, 16) has returned 0000000100101100.
C16_Witness ==
    /\ op = "toBeRadix"
    /\ FieldA.value = 300
    /\ input.radix = 2
    /\ input.length = 16
    /\ result.ok
    /\ result.value = <<0, 0, 0, 0, 0, 0, 0, 1, 0, 0, 1, 0, 1, 1, 0, 0>>

----------------------------------------------------------------------------
(* Specification of the serializer: a value fixed by Init, a DataType or   *)
(* not, nested up to two levels; the actions encode it.                    *)

\* The largest number of items of an array and of keys of a StructMap.
MaxItems == 2

ScalarValues ==
    {FieldOf(0), FieldOf(1), FieldOf(300), FieldOf(-1), IntegerOfType("U8", 12),
     IntegerOfType("I8", -5), BoolOf(1), BoolOf(0), StrOf(<<"h", "i">>), StrOf(<<>>)}

RawValues == {Null, Undefined, RawNumber(5), RawString(<<"s">>), RawBoolean(1)}

StructKey(i) == <<"k">> \o BigIntToString(i, 10)

StructKeys(k) == [i \in 1..k |-> StructKey(i)]

SeqsUpTo(S, k) == UNION {[1..m -> S] : m \in 0..k}

\* The containers over a set of values.
ContainersOf(S) ==
    LET seqs == SeqsUpTo(S, MaxItems)
    IN  {FixedSizeArrayOf(its) : its \in seqs}
            \cup {RawArray(its) : its \in seqs}
            \cup {StructMapOf(StructKeys(Len(vals)), vals) : vals \in seqs}

VecValues ==
    {BoundedVecOf([maxSize |-> 2, length |-> 1, items |-> <<FieldOf(1), FieldOf(0)>>]),
     BoundedVecOf([maxSize |-> 1, length |-> 0, items |-> <<IntegerOfType("U8", 12)>>])}

SerializerValues ==
    LET level1 == ContainersOf(ScalarValues \cup RawValues) \cup VecValues
    IN  ScalarValues \cup RawValues \cup level1
            \cup {FixedSizeArrayOf(<<c>>) : c \in level1}
            \cup {StructMapOf(StructKeys(1), <<c>>) : c \in level1}

InitSer ==
    /\ input \in [value : SerializerValues]
    /\ op = "init"
    /\ result = Ok([kind |-> "none"])
    /\ NoVec

GetInputRepresentation ==
    /\ op' = "getInputRepresentation"
    /\ result' = getInputRepresentation(input.value)
    /\ UNCHANGED <<input, maxSize, length, items, heap>>

\* The exported entry point, typed for a StructMap.
ToCircuitInputsOfStruct ==
    /\ input.value.tag = "object"
    /\ op' = "toCircuitInputs"
    /\ result' = toCircuitInputs(input.value)
    /\ UNCHANGED <<input, maxSize, length, items, heap>>

NextSer == GetInputRepresentation \/ ToCircuitInputsOfStruct

SpecSer == InitSer /\ [][NextSer]_vars

----------------------------------------------------------------------------
(* Properties of the serializer, checked under SpecSer.                    *)

SerOps == {"getInputRepresentation", "toCircuitInputs"}

RECURSIVE IsDataType(_)
\* The closed set of types: Field, bounded integers, Bool, Str, BoundedVec,
\* FixedSizeArray and StructMap, of DataTypes.
IsDataType(v) ==
    \/ v.tag \in {"Field", "AbstractInteger", "Bool", "Str"}
    \/ v.tag \in {"FixedSizeArray", "BoundedVec"}
          /\ \A i \in 1..Len(v.items) : IsDataType(v.items[i])
    \/ v.ty = "StructMap" /\ \A i \in 1..Len(v.vals) : IsDataType(v.vals[i])

\* All characters are lowercase hexadecimal digits.
LowerHex(s) == Len(s) >= 1 /\ \A i \in 1..Len(s) : \E j \in 1..16 : HexChars[j] = s[i]

\* The string is "0x" and then the base-16 numeral of n (its sign first).
HexReadsAs(str, n) ==
    /\ Len(str) >= 3 /\ str[1] = "0" /\ str[2] = "x"
    /\ LET digits == SubSeq(str, IF n < 0 THEN 4 ELSE 3, Len(str))
       IN  /\ n < 0 => str[3] = "-"
           /\ LowerHex(digits)
           /\ ParseDigits(digits, 16, 0) = Abs(n)

RECURSIVE Encodes(_, _)
\* rep is the encoding the claim gives the DataType v.
Encodes(rep, v) ==
    IF v.tag = "AbstractInteger" THEN rep.kind = "string" /\ ReadsAs(rep.text, v.value)
    ELSE IF v.tag = "Field" THEN rep.kind = "string" /\ HexReadsAs(rep.text, v.value)
    ELSE IF v.tag = "Bool"
    THEN rep.kind = "boolean" /\ rep.text = <<IF v.value = 1 THEN "true" ELSE "false">>
    ELSE IF v.tag = "Str" THEN rep.kind = "string" /\ rep.text = v.text
    ELSE IF v.tag = "FixedSizeArray"
    THEN /\ rep.kind = "array"
         /\ Len(rep.elems) = Len(v.items)
         /\ \A i \in 1..Len(v.items) : Encodes(rep.elems[i], v.items[i])
    ELSE IF v.tag = "object"
    THEN /\ rep.kind = "object"
         /\ rep.keys = v.keys
         /\ Len(rep.vals) = Len(v.vals)
         /\ \A i \in 1..Len(v.vals) : Encodes(rep.vals[i], v.vals[i])
    ELSE rep.kind = "BoundedVec"

\* C17: the serializer encodes a bounded integer as its decimal string (never
\* hexadecimal), a plain Field as a 0x-hexadecimal string, a Bool as a
\* boolean, a Str as its raw string, a FixedSizeArray as the sequence of its
\* elements' encodings in order, and a StructMap as a mapping with the same
\* keys whose values are encoded recursively.
C17_EncodingByType ==
    (op \in SerOps /\ IsDataType(input.value)) =>
        (result.ok /\ Encodes(result.value, input.value))

\* {k1: [U8(12), Field(300)]} has been encoded as {k1: ["12", "0x12c"]}.
C17_Witness ==
    /\ op = "toCircuitInputs"
    /\ input.value = StructMapOf(<<StructKey(1)>>,
            <<FixedSizeArrayOf(<<IntegerOfType("U8", 12), FieldOf(300)>>)>>)
    /\ result.ok
    /\ result.value =
          [kind |-> "object", keys |-> <<StructKey(1)>>,
           vals |-> << [kind |-> "array",
                        elems |-> << [kind |-> "string", text |-> <<"1", "2">>],
                                     [kind |-> "string",
                                      text |-> <<"0", "x", "1", "2", "c">>] >>] >>]

\* C18: the serializer fails with 'Invalid value type: ...' for every input
\* that is not a DataType (null, undefined, a primitive number, string or
\* boolean, a raw array), also when nested, and never returns an encoding.
C18_NonDataTypeRejected ==
    (op \in SerOps /\ ~IsDataType(input.value)) =>
        (~result.ok /\ result.error[1] = "Invalid value type: ")

RECURSIVE HasRawArray(_)
\* A native array occurs in the value.
HasRawArray(v) ==
    \/ v.ty = "Array"
    \/ v.tag \in {"FixedSizeArray", "BoundedVec"}
          /\ \E i \in 1..Len(v.items) : HasRawArray(v.items[i])
    \/ v.ty = "StructMap" /\ \E i \in 1..Len(v.vals) : HasRawArray(v.vals[i])

\* Without native arrays every value that is no DataType is rejected.
PrimitivesRejected == (~HasRawArray(input.value)) => C18_NonDataTypeRejected

\* The hexadecimal digits of 32 bytes, the byte length of the modulus.
PaddedHexDigits == 2 * Len(modLeBytes)

----------------------------------------------------------------------------------
(* Specification of FixedSizeArray: Init is a construction, failed or not; *)
(* each action is one call on the constructed array, or one mutation by    *)
(* the caller of an array it holds.  input keeps the arguments of the call *)
(* and the items before it.  heap keeps the caller's side: the arrays it   *)
(* holds (the one it passed to the constructor, the one toArray() last     *)
(* returned), which of them are the very array the container stores, and   *)
(* the construction length.  An array that is not the container's own is   *)
(* not followed: nothing the caller does to it reaches the container.      *)
(* maxSize is not used.                                                    *)

\* The longest FixedSizeArray.
MaxFixed == 3

FixedItems == UNION {[1..n -> Elems] : n \in 0..MaxFixed}

FixedIndices == -(MaxFixed + 2) .. (MaxFixed + 1)

SelfArray == [length |-> length, items |-> items]

ArrayArgs(item, index) == [item |-> item, index |-> index, items |-> items]

Constructed == heap.built >= 0

InitArray ==
    \E n \in 0..MaxFixed, its \in FixedItems :
        LET made == FixedSizeArray_constructor(n, its)
        IN  /\ length = made.vec.length
            /\ items = made.vec.items
            /\ maxSize = 0
            /\ input = [item |-> Undefined, index |-> 0, items |-> its, n |-> n]
            /\ op = "new FixedSizeArray"
            /\ result = [ok |-> made.ok, value |-> made.value, error |-> made.error]
            /\ heap = [held |-> {"passed"},
                       same |-> IF made.ok THEN SpreadCopy("passed") ELSE {},
                       built |-> IF made.ok THEN n ELSE -1]

ArrayBecomes(out) ==
    /\ Constructed
    /\ length' = out.vec.length
    /\ items' = out.vec.items
    /\ result' = [ok |-> out.ok, value |-> out.value, error |-> out.error]
    /\ UNCHANGED <<maxSize, heap>>

ArrayGet ==
    \E index \in FixedIndices :
        /\ op' = "get"
        /\ input' = ArrayArgs(Undefined, index)
        /\ ArrayBecomes(FixedSizeArray_get(SelfArray, index))

ArrayAt ==
    \E index \in FixedIndices :
        /\ op' = "at"
        /\ input' = ArrayArgs(Undefined, index)
        /\ ArrayBecomes(FixedSizeArray_at(SelfArray, index))

ArraySet ==
    \E index \in FixedIndices, item \in Elems :
        /\ op' = "set"
        /\ input' = ArrayArgs(item, index)
        /\ ArrayBecomes(FixedSizeArray_set(SelfArray, index, item))

ArrayToCircuitInputs ==
    /\ op' = "toCircuitInputs"
    /\ input' = ArrayArgs(Undefined, 0)
    /\ ArrayBecomes(FixedSizeArray_toCircuitInputs(SelfArray))

ArrayForEach ==
    \E callback \in Callbacks :
        /\ op' = "forEach"
        /\ input' = ArrayArgs(Undefined, 0)
        /\ ArrayBecomes(FixedSizeArray_forEach(SelfArray, callback))

ArrayMap ==
    \E callback \in Callbacks :
        /\ op' = "map"
        /\ input' = ArrayArgs(Undefined, 0)
        /\ ArrayBecomes(FixedSizeArray_map(SelfArray, callback))

\* toArray(): the caller now holds the returned array.
ArrayToArray ==
    LET out == FixedSizeArray_toArray(SelfArray)
    IN  /\ Constructed
        /\ op' = "toArray"
        /\ input' = ArrayArgs(Undefined, 0)
        /\ result' = [ok |-> out.ok, value |-> out.value, error |-> out.error]
        /\ heap' = [heap EXCEPT !.held = @ \cup {"returned"},
                                !.same = (@ \ {"returned"}) \cup SpreadCopy("returned")]
        /\ UNCHANGED <<maxSize, length, items>>

\* What the caller can do to an array it holds: push an item, pop, write
\* an item to slot 0.
CallerMutations == {"push", "pop", "write"}

Mutated(array, mutation, item) ==
    IF mutation = "push" THEN Append(array, item)
    ELSE IF mutation = "pop" THEN SubSeq(array, 1, Len(array) - 1)
    ELSE ArrayWrite(array, 0, item)

\* The caller mutates an array it holds; the container's storage changes
\* with it exactly when it is the same object.
CallerMutates ==
    \E held \in heap.held, mutation \in CallerMutations, item \in Elems :
        /\ Constructed
        /\ op' = "caller mutates"
        /\ input' = [item |-> item, index |-> 0, items |-> items,
                     held |-> held, mutation |-> mutation]
        /\ result' = Ok(0)
        /\ items' = IF held \in heap.same /\ Len(items) <= MaxFixed
                    THEN Mutated(items, mutation, item) ELSE items
        /\ UNCHANGED <<maxSize, length, heap>>

NextArray ==
    \/ ArrayGet \/ ArrayAt \/ ArraySet \/ ArrayToCircuitInputs
    \/ ArrayForEach \/ ArrayMap \/ ArrayToArray \/ CallerMutates

SpecArray == InitArray /\ [][NextArray]_vars

----------------------------------------------------------------------------
(* Properties of FixedSizeArray, checked under SpecArray.                  *)

OutOfBounds(index) == index < 0 \/ index >= length

IsIndexError(error) ==
    /\ Len(error) >= 3
    /\ error[1] = "Index "
    /\ error[Len(error)] = " out of bounds"

\* C20: get(index) and set(index, item) fail with an index-out-of-bounds
\* error when index < 0 or index >= L and leave the items unchanged; in
\* bounds get returns the item and set replaces it; at(index) maps a negative
\* index i to L + i and fails with the same error when the adjusted index is
\* still outside [0, L).
C20_IndexBounds ==
    /\ (op \in {"get", "set"}) =>
          IF OutOfBounds(input.index)
          THEN /\ ~result.ok
               /\ IsIndexError(result.error)
               /\ items = input.items
          ELSE /\ result.ok
               /\ op = "get" => (result.value = input.items[input.index + 1]
                                    /\ items = input.items)
               /\ op = "set" => items = [input.items EXCEPT ![input.index + 1] = input.item]
    /\ (op = "at") =>
          LET adjusted == IF input.index < 0 THEN length + input.index ELSE input.index
          IN  /\ items = input.items
              /\ IF OutOfBounds(adjusted)
                 THEN ~result.ok /\ IsIndexError(result.error)
                 ELSE result.ok /\ result.value = input.items[adjusted + 1]
    /\ length = Len(items)

\* get(-1) on an array of two items has failed and left them as they were.
C20_Witness ==
    /\ op = "get"
    /\ input.index = -1
    /\ length = 2
    /\ ~result.ok
    /\ result.error = <<"Index ", "-", "1", " out of bounds">>
    /\ items = input.items


C21_PassedWitness ==
    /\ Constructed
    /\ heap.built = 2
    /\ op = "caller mutates"
    /\ input.held = "passed"
    /\ input.mutation = "pop"
    /\ Len(items) = 2

\* A construction with a length that is not the number of items failed.
C21_MismatchWitness ==
    /\ op = "new FixedSizeArray"
    /\ input.n = 2
    /\ Len(input.items) = 1
    /\ ~result.ok

----------------------------------------------------------------------------
(* Further properties of BoundedVec, checked under SpecVec.                *)

\* C22: a BoundedVec call that throws (push on a full vector, pop on an
\* empty one, get/set/at out of range, extendFromArray/extendFromVec that
\* would overflow) leaves the length and every slot as they were, so an
\* overflowing extend appends nothing; an extend that does not overflow
\* appends every item in order and raises len() by their number.
C22_FailuresChangeNothing ==
    /\ ~result.ok =>
           /\ length = input.len
           /\ items = input.items
    /\ op \in {"extendFromArray", "extendFromVec"} =>
           /\ result.ok <=> input.len + Len(input.arr) <= maxSize
           /\ ~result.ok => result.error = <<"Vector overflow">>
           /\ result.ok =>
                  /\ length = input.len + Len(input.arr)
                  /\ Len(items) = Len(input.items)
                  /\ \A i \in 1..Len(items) :
                         items[i] = IF i > input.len /\ i <= length
                                    THEN input.arr[i - input.len]
                                    ELSE input.items[i]

\* An extend by two items of a vector of capacity 2 holding one element has
\* thrown.
C22_Witness ==
    /\ op = "extendFromArray"
    /\ maxSize = 2
    /\ input.len = 1
    /\ Len(input.arr) = 2
    /\ result.error = <<"Vector overflow">>
    /\ length = 1

\* An extend by two different items of a vector with room for them.
C22_AppendWitness ==
    /\ op = "extendFromArray"
    /\ result.ok
    /\ input.len = 1
    /\ length = 3
    /\ Len(input.arr) = 2
    /\ input.arr[1] # input.arr[2]

\* C23: get and set succeed exactly when 0 <= index < len(), whatever the
\* capacity: a slot at or past len() is in the storage and can be neither
\* read nor written, and an index that was valid stops being valid when a
\* pop lowers len() to it.  at() with a negative index reads len() + index
\* and fails when that is outside [0, len()).
C23_IndexAgainstLen ==
    /\ op \in {"get", "set"} =>
           /\ result.ok <=> (0 <= input.index /\ input.index < input.len)
           /\ ~result.ok => result.error = <<"Index out of bounds">>
    /\ (op = "get" /\ result.ok) => result.value = input.items[input.index + 1]
    /\ (op = "set" /\ result.ok) =>
           /\ items = [input.items EXCEPT ![input.index + 1] = input.item]
           /\ length = input.len
    /\ op = "at" =>
           LET adjustedIndex == IF input.index < 0 THEN input.len + input.index
                                ELSE input.index
           IN  /\ result.ok <=> (0 <= adjustedIndex /\ adjustedIndex < input.len)
               /\ ~result.ok => result.error = <<"Index out of bounds">>
               /\ result.ok => result.value = input.items[adjustedIndex + 1]

\* A get of slot 1 of a vector of capacity 3 and length 1, whose slot 1 holds
\* something other than the default (an element popped earlier), has thrown.
C23_Witness ==
    /\ op = "get"
    /\ input.index = 1
    /\ input.len = 1
    /\ maxSize = 3
    /\ items[2] # heap.default
    /\ result.error = <<"Index out of bounds">>

\* C25: every backing slot at or past len() holds the default given to the
\* constructor; in particular the slot a pop vacates holds the default again.
C25_UnusedSlotsHoldDefault ==
    \A i \in (length + 1)..Len(items) : items[i] = heap.default

\* C30: the vector is a bounded stack over the caller's plain sequence: after
\* any calls, the first len() slots are that sequence, a successful get(i)
\* returns its element i and a successful pop returns the element that was
\* its last.
C30_StackOverSequence ==
    /\ toArray(Self) = heap.model
    /\ len(Self) = Len(heap.model)
    /\ (op = "get" /\ result.ok) => result.value = heap.model[input.index + 1]
    /\ (op = "pop" /\ result.ok) =>
           /\ result.value = heap.before[Len(heap.before)]
           /\ heap.model = ModelPop(heap.before)

\* A pop has returned the last of three elements, which differs from the one
\* before it.
C30_Witness ==
    /\ op = "pop"
    /\ result.ok
    /\ Len(heap.before) = 3
    /\ heap.before[3] # heap.before[2]
    /\ result.value = heap.before[3]
    /\ length = 2

----------------------------------------------------------------------------
(* Specification of the slots of a BoundedVec as references.  The elements *)
(* are mutable objects, FixedSizeArrays of one item; heap is the sequence  *)
(* of the objects constructed so far and items holds, for each slot, the   *)
(* position in heap of the object the slot refers to.  The caller gives    *)
(* the constructor one default object, pushes objects it has just          *)
(* constructed, and mutates objects it reaches through storage().          *)

\* The most objects constructed.
MaxObjects == 4

storage(vec) == vec.items

NewObject(item) == FixedSizeArray_constructor(1, <<item>>).vec

InitRefs ==
    \E size \in 0..MaxCap, item \in Elems :
        LET defaultValue == 1
            made == BoundedVec_constructor(size, defaultValue, <<>>)
        IN  /\ heap = <<NewObject(item)>>
            /\ maxSize = made.vec.maxSize
            /\ length = made.vec.length
            /\ items = made.vec.items
            /\ input = [item |-> item, index |-> 0, heap |-> <<>>]
            /\ op = "new BoundedVec"
            /\ result = [ok |-> made.ok, value |-> 0, error |-> made.error]

RefBecomes(out) ==
    /\ maxSize' = out.vec.maxSize
    /\ length' = out.vec.length
    /\ items' = out.vec.items
    /\ result' = [ok |-> out.ok, value |-> out.value, error |-> out.error]

\* push(new FixedSizeArray(1, [item]))
PushNew ==
    \E item \in Elems :
        /\ Len(heap) < MaxObjects
        /\ op' = "push"
        /\ input' = [item |-> item, index |-> 0, heap |-> heap]
        /\ heap' = Append(heap, NewObject(item))
        /\ RefBecomes(push(Self, Len(heap) + 1))

PopRef ==
    /\ op' = "pop"
    /\ input' = [item |-> Undefined, index |-> 0, heap |-> heap]
    /\ heap' = heap
    /\ RefBecomes(pop(Self))

\* storage()[index].set(0, item)
MutateSlot ==
    \E index \in 0..(maxSize - 1), item \in Elems :
        LET slot == storage(Self)[index + 1]
        IN  /\ op' = "storage()[index].set"
            /\ input' = [item |-> item, index |-> index, heap |-> heap]
            /\ heap' = [heap EXCEPT ![slot] = FixedSizeArray_set(@, 0, item).vec]
            /\ result' = Ok(0)
            /\ UNCHANGED <<maxSize, length, items>>

NextRefs == PushNew \/ PopRef \/ MutateSlot

SpecRefs == InitRefs /\ [][NextRefs]_vars

\* No two backing slots refer to the same object.
NoSharedSlot ==
    \A i, j \in 1..Len(items) : i # j => items[i] # items[j]

\* A mutation through one slot leaves the objects of the other slots as
\* they were.
MutationStaysLocal ==
    op = "storage()[index].set" =>
        \A j \in 1..Len(items) :
            j # input.index + 1 => heap[items[j]] = input.heap[items[j]]

\* C26: a new BoundedVec holds maxSize independently constructed defaults:
\* no two slots refer to the same object, and mutating the object of one
\* slot never changes what another slot holds.
C26_SlotsIndependent == NoSharedSlot /\ MutationStaysLocal

----------------------------------------------------------------------------
(* Further properties of the bounded integers, checked under SpecInt.      *)

IntArithmetic == {"add", "sub", "mul", "div", "mod"}

\* The Field result of a binary operation on residues a and b, b # 0 for
\* div and mod, from its definition modulo MODULUS.
FieldResultOf(o, a, b) ==
    IF o = "add" THEN (a + b) % MODULUS
    ELSE IF o = "sub" THEN (a - b) % MODULUS
    ELSE IF o = "mul" THEN (a * b) % MODULUS
    ELSE IF o = "div" THEN CHOOSE q \in 0..(MODULUS - 1) : (q * b) % MODULUS = a
    ELSE a % b

\* C24: for bounded integers a and b of one type, add/sub/mul/div/mod return
\* the Field result modulo P as an instance of that type without enforcing
\* the type's range: a result outside [MIN, MAX] is accepted (U8(200) plus
\* U8(100) is 300, U8(3) minus U8(5) is P - 2).  Stated for operands that are
\* residues (not negative), and a divisor that is not 0.
C24_RangeNotEnforced ==
    (/\ op \in IntArithmetic
     /\ IntA.value >= 0 /\ IntB.value >= 0
     /\ op \in {"div", "mod"} => IntB.value # 0) =>
        /\ result.ok
        /\ result.value = FieldResultOf(op, IntA.value, IntB.value)

\* What the code does instead: add/sub/mul/div succeed exactly when the Field
\* result is within [MIN, MAX], and mod always does.
RangeEnforced ==
    (/\ op \in IntArithmetic
     /\ IntA.value >= 0 /\ IntB.value >= 0
     /\ op \in {"div", "mod"} => IntB.value # 0) =>
        LET expected == FieldResultOf(op, IntA.value, IntB.value)
        IN  /\ result.ok <=> (op = "mod" \/ expected <= MAX_VALUE(input.ty))
            /\ result.ok => result.value = expected

----------------------------------------------------------------------------
(* Further properties of the decompositions, checked under SpecDecomp.     *)

\* The bit size of the field as the code has it, not scaled: the longest
\* bit length of a value.
UNSCALED_BIT_SIZE == 254

\* C27: for a valid radix r and a value v >= 0, toLeRadix(r, length) and
\* toBeRadix(r, length) succeed exactly when min <= length <= 256, where min
\* is ceil(bitlength(v) / log2(r)) rounded up to the next power of two (1 for
\* v = 0), and fail with 'Length must be between <min> and 256' otherwise;
\* min is at most 256, for every bit length up to the field's 254 too.
C27_RadixLengthWindow ==
    (op \in RadixOps /\ FieldA.value >= 0 /\ ValidRadix(input.radix)) =>
        LET min == MinDigits(FieldA.value, input.radix)
        IN  /\ result.ok <=> (min <= input.length /\ input.length <= 256)
            /\ ~result.ok => result.error = ExpectedLengthMessage(min, 256)
            /\ minRadixLength(FieldA.value, input.radix) = Ok(min)
            /\ min <= 256
            /\ \A bits \in 1..UNSCALED_BIT_SIZE :
                   roundedLoop(1, CeilDiv(bits, RadixBits(input.radix))) <= 256

\* toLeRadix(2, 5) of 16, a value of 5 bits, has been refused: the minimum is
\* 8, the next power of two.
C27_Witness ==
    /\ op = "toLeRadix"
    /\ FieldA.value = 16
    /\ input.radix = 2
    /\ input.length = 5
    /\ result.error = <<"Length must be between ", "8", " and ", "2", "5", "6">>

----------------------------------------------------------------------------
(* Further properties of Field, checked under SpecField.                   *)

\* C28: b.equals(x) for a scalar x returns what b.equals(new Field(x))
\* returns, so that a scalar is reduced before it is compared
\* (Field(0).equals(P) is true), and a scalar the constructor rejects makes
\* equals fail.
C28_EqualsNormalizes ==
    op = "equals" =>
        IF FieldA.ok
        THEN result.ok /\ result.value = equalsField(FieldB.value, FieldA.value).value
        ELSE ~result.ok

\* The claim's example: Field(0).equals(P) is true.
ZeroEqualsModulus ==
    (op = "equals" /\ input.y = BigIntIn(0) /\ input.x = BigIntIn(MODULUS)) =>
        (result.ok /\ result.value = TRUE)

\* What the code does instead: the scalar is compared as BigInt(x), not
\* reduced and not validated.
EqualsComparesBigInt ==
    op = "equals" =>
        /\ result.ok <=> BigInt(input.x).ok
        /\ result.ok => result.value = (FieldB.value = BigInt(input.x).value)

----------------------------------------------------------------------------
(* Specification of Prover.  heap is the Prover: the ProvingBackend type   *)
(* it was constructed with and, for each backend, whether it was created   *)
(* ("none", "live" or, after destroy(), "destroyed").  input is the        *)
(* override type of the call ("undefined" when the call gives none) and    *)
(* the witness, input map or proof handed to it; the backends and Noir are *)
(* outside the model, so a result is the backend that was called and what  *)
(* it was called with.  maxSize, length and items are not used.            *)

\* The largest witness, input map or proof handed to a call.
MaxPayload == 2

BackendTypes == {"plonk", "honk", "all"}

Overrides == BackendTypes \cup {"undefined"}

Prover_constructor(type) ==
    [type |-> type,
     plonk |-> IF type = "plonk" \/ type = "all" THEN "live" ELSE "none",
     honk |-> IF type = "honk" \/ type = "all" THEN "live" ELSE "none"]

getProvingBackend(prover, backendType) ==
    IF backendType = "plonk" \/ prover.type = "plonk"
    THEN IF prover.plonk # "none" THEN Ok("plonk")
         ELSE Err(<<"Proving backend ", "plonk", " not initialized">>)
    ELSE IF backendType = "honk" \/ prover.type = "honk"
    THEN IF prover.honk # "none" THEN Ok("honk")
         ELSE Err(<<"Proving backend ", "honk", " not initialized">>)
    ELSE Err(<<"Specify a proving backend from either \"plonk\" or \"honk\"">>)

\* backend.generateProof(witness)
prove(prover, witness, backendType) ==
    LET backend == getProvingBackend(prover, backendType)
    IN  IF backend.ok THEN Ok([backend |-> backend.value, payload |-> witness])
        ELSE backend

\* noir.execute(input) gives the witness; the witness of input map n is n.
simulateWitness(inputMap) == inputMap

fullProve(prover, inputMap, backendType) ==
    prove(prover, simulateWitness(inputMap), backendType)

\* backend.verifyProof(proof)
verify(prover, proof, backendType) ==
    LET backend == getProvingBackend(prover, backendType)
    IN  IF backend.ok THEN Ok([backend |-> backend.value, payload |-> proof])
        ELSE backend

destroy(prover) ==
    [prover EXCEPT !.plonk = IF @ # "none" THEN "destroyed" ELSE @,
                   !.honk = IF @ # "none" THEN "destroyed" ELSE @]

\* The type of a ProvingBackend is optional, at construction too.
InitProver ==
    \E type \in Overrides :
        /\ heap = Prover_constructor(type)
        /\ input = [override |-> "undefined", payload |-> 0]
        /\ op = "new Prover"
        /\ result = Ok([backend |-> type, payload |-> 0])
        /\ maxSize = 0 /\ length = 0 /\ items = <<>>

Prove ==
    \E override \in Overrides, witness \in 0..MaxPayload :
        /\ op' = "prove"
        /\ input' = [override |-> override, payload |-> witness]
        /\ result' = prove(heap, witness, override)
        /\ UNCHANGED <<heap, maxSize, length, items>>

FullProve ==
    \E override \in Overrides, inputMap \in 0..MaxPayload :
        /\ op' = "fullProve"
        /\ input' = [override |-> override, payload |-> inputMap]
        /\ result' = fullProve(heap, inputMap, override)
        /\ UNCHANGED <<heap, maxSize, length, items>>

Verify ==
    \E override \in Overrides, proof \in 0..MaxPayload :
        /\ op' = "verify"
        /\ input' = [override |-> override, payload |-> proof]
        /\ result' = verify(heap, proof, override)
        /\ UNCHANGED <<heap, maxSize, length, items>>

Destroy ==
    /\ op' = "destroy"
    /\ input' = [override |-> "undefined", payload |-> 0]
    /\ result' = Ok([backend |-> heap.type, payload |-> 0])
    /\ heap' = destroy(heap)
    /\ UNCHANGED <<maxSize, length, items>>

NextProver == Prove \/ FullProve \/ Verify \/ Destroy

SpecProver == InitProver /\ [][NextProver]_vars

ProverCalls == {"prove", "fullProve", "verify"}

\* C29: a prove, fullProve or verify call that names 'plonk' or 'honk' uses
\* that backend whatever type the Prover was constructed with, and fails
\* with 'Proving backend <type> not initialized' when that backend was not
\* created; the construction type decides only when the call names none.
C29_OverrideDecides ==
    (op \in ProverCalls /\ input.override \in {"plonk", "honk"}) =>
        IF heap[input.override] # "none"
        THEN result.ok /\ result.value.backend = input.override
        ELSE /\ ~result.ok
             /\ result.error = <<"Proving backend ", input.override, " not initialized">>

\* What the code does instead: a Prover constructed with 'plonk' uses plonk
\* whatever the call names; otherwise the call's type decides, and the
\* construction type when the call names none.
ConstructionPlonkWins ==
    op \in ProverCalls =>
        LET type == IF heap.type = "plonk" \/ input.override = "plonk" THEN "plonk"
                    ELSE IF heap.type = "honk" \/ input.override = "honk" THEN "honk"
                    ELSE "neither"
        IN  IF type = "neither" THEN ~result.ok
            ELSE IF heap[type] # "none"
            THEN result.ok /\ result.value.backend = type
            ELSE result.error = <<"Proving backend ", type, " not initialized">>

=============================================================================
